---- MODULE Spec2Model ----
(***************************************************************************)
(* A model of the blockso frontend: the Profile page (avatar resolution,   *)
(* profile fetch, follow button, posts list), the EnsAndAddress label,     *)
(* the CreateProfileForm submission, the Home page and getCookie.          *)
(*                                                                         *)
(* React semantics used throughout: a function component's handlers and    *)
(* effects close over the state of the render that created them; an effect *)
(* with a dependency list runs after the render in which a dependency      *)
(* changed (and after mount); passive effects are flushed before any later *)
(* event is processed.                                                     *)
(***************************************************************************)
EXTENDS Integers, Sequences, FiniteSets, TLC

\* ------------------------------------------------------------------ bounds
NumAddrs == 2
MaxNav == 2
MaxFollow == 2

Addrs == 1..NumAddrs

\* ------------------------------------------------------- JavaScript values
Undefined == [t |-> "undefined", s |-> "", a |-> 0]
Null == [t |-> "null", s |-> "", a |-> 0]
EmptyStr == [t |-> "string", s |-> "", a |-> 0]
\* the avatar URL the naming registry holds for address a
EnsAvatarUrl(a) == [t |-> "string", s |-> "ens-avatar", a |-> a]
\* the custom image URL of the profile record of address a
CustomImage(a) == [t |-> "string", s |-> "custom-image", a |-> a]

\* ------------------------------------------------------------ Profile page
VARIABLES
    address,        \* useParams().address: the observed address
    navCount,       \* number of navigations so far (routerLocation.key)
    profileData,    \* useState({})
    pfpUrl,         \* useState(null)
    ensAvatarQ,     \* the useEnsAvatar query of each address: status, data
    avatarRegistry, \* the naming registry: which addresses have an avatar
    effects,        \* effects scheduled by the last render, not yet run
    requests,       \* GET /{address}/profile/ requests in flight
    followReqs,     \* POST /{address}/follow/ requests in flight, per address
    lastRes,        \* history: the last profile response that arrived
    staleApplied    \* history: a 200 response for a former address was applied

profileVars == <<address, navCount, profileData, pfpUrl, ensAvatarQ,
                 avatarRegistry, effects, requests, followReqs, lastRes,
                 staleApplied>>

\* --------------------------------------------------------- EnsAndAddress
VARIABLES
    eaAddress,      \* props.address (0: the component is not mounted)
    ensNameQ,       \* the useEnsName query of each address: status, data
    nameRegistry    \* the naming registry: which addresses have a name

ensVars == <<eaAddress, ensNameQ, nameRegistry>>

\* ----------------------------------------------------- CreateProfileForm
VARIABLES
    account,        \* useAccount(): status and address of the wallet
    profile,        \* props.profile: the form state kept by the parent
    saveReqs,       \* POST /{address}/profile/ requests in flight
    saveCount,      \* number of save requests issued so far
    formLog,        \* the last line handleSubmit wrote to the console
    lastSave        \* history: the status of the last save response

formVars == <<account, profile, saveReqs, saveCount, formLog, lastSave>>

\* ------------------------------------------------------------------ Home
VARIABLES
    homeMounted,      \* the route shows Home
    user,             \* useUser(): the signed-in user, or NoUser for null
    homeProfileData,  \* Home's useState(null)
    loading,          \* Home's useState(true)
    homeEffects       \* Home's effects scheduled by the last render, not yet run

homeVars == <<homeMounted, user, homeProfileData, loading, homeEffects>>

\* ------------------------------------------------------------- getCookie
VARIABLES
    cookieJar,      \* the cookies of the page, in the order document.cookie lists them
    cookieArg,      \* the argument name of the call
    cookiePc,       \* "call" before getCookie ran, "done" after
    cookieResult    \* what getCookie returned

cookieVars == <<cookieJar, cookieArg, cookiePc, cookieResult>>

vars == <<profileVars, ensVars, formVars, homeVars, cookieVars>>

\* a post of the backend's profile payload
Post(id, created, author) == [id |-> id, created |-> created, author |-> author]

\* useState({}): no key at all
EmptyProfile == [keys |-> {}, address |-> 0, image |-> Undefined, posts |-> <<>>]

\* the post lists the backend may send for address a: newest-first without
\* repetition, or oldest-first with one post sent twice
PostLists(a) ==
    { <<Post(3, 20, a), Post(2, 20, a), Post(1, 10, a)>>,
      <<Post(1, 10, a), Post(2, 20, a), Post(3, 20, a), Post(2, 20, a)>> }

\* the JSON bodies a 200 response for address a may carry
ProfilePayloads(a) ==
    { [keys |-> {"image", "bio", "numFollowers", "numFollowing", "posts"},
       address |-> a, image |-> i, posts |-> p] :
         i \in {EmptyStr, CustomImage(a)}, p \in PostLists(a) }

Statuses == {200, 404, 500}

\* the hook's return value in the current render
ensAvatar == ensAvatarQ[address]

QueryIdle == [status |-> "idle", data |-> Undefined]
QueryLoading == [status |-> "loading", data |-> Undefined]

\* JavaScript null where a user object is expected
NoUser == [address |-> 0, rev |-> 0]

\* getCookie is not called
CookieUnused ==
    /\ cookieJar = <<>>
    /\ cookieArg = <<>>
    /\ cookiePc = "unused"
    /\ cookieResult = <<>>

\* the state of a component that is not mounted
HomeUnmounted ==
    /\ homeMounted = FALSE
    /\ user = NoUser
    /\ homeProfileData = NoUser
    /\ loading = TRUE
    /\ homeEffects = {}

EnsUnmounted ==
    /\ eaAddress = 0
    /\ ensNameQ = [a \in Addrs |-> [status |-> "idle", data |-> <<"undefined">>]]
    /\ nameRegistry = [a \in Addrs |-> FALSE]

FormUnmounted ==
    /\ account = [status |-> "disconnected", address |-> 0]
    /\ profile = [bio |-> "", website |-> ""]
    /\ saveReqs = {}
    /\ saveCount = 0
    /\ formLog = ""
    /\ lastSave = 0

ProfileUnmounted ==
    /\ address = 0
    /\ navCount = 0
    /\ profileData = [keys |-> {}, address |-> 0, image |-> Undefined, posts |-> <<>>]
    /\ pfpUrl = Null
    /\ avatarRegistry = [a \in Addrs |-> FALSE]
    /\ ensAvatarQ = [a \in Addrs |-> QueryIdle]
    /\ effects = {}
    /\ requests = {}
    /\ followReqs = [a \in Addrs |-> 0]
    /\ lastRes = [id |-> -1, addr |-> 0, status |-> 0]
    /\ staleApplied = FALSE

\* what the registry lookup returns for a on success
RegistryAvatar(a) == IF avatarRegistry[a] THEN EnsAvatarUrl(a) ELSE Null

determineProfilePic(pd, ensData) ==
    IF "image" \in pd.keys /\ pd.image # EmptyStr THEN pd.image ELSE ensData

\* the effect on [pfpUrl]: the value of pfpUrl after it ran
PfpEffect(p, ensData) ==
    IF p = ensData THEN p
    ELSE IF ensData # EmptyStr THEN ensData
    ELSE p

FetchRequest(id, addr, pd, ensData) ==
    [id |-> id, addr |-> addr, pd |-> pd, ens |-> ensData]

NoRes == [id |-> -1, addr |-> 0, status |-> 0]

Init ==
    /\ address \in Addrs
    /\ navCount = 0
    /\ profileData = EmptyProfile
    /\ pfpUrl = Null
    /\ avatarRegistry \in [Addrs -> BOOLEAN]
    /\ ensAvatarQ = [a \in Addrs |-> IF a = address THEN QueryLoading ELSE QueryIdle]
    /\ effects = {"fetchProfile", "pfpUrl"}
    /\ requests = {}
    /\ followReqs = [a \in Addrs |-> 0]
    /\ lastRes = NoRes
    /\ staleApplied = FALSE
    /\ EnsUnmounted
    /\ FormUnmounted
    /\ HomeUnmounted
    /\ CookieUnused

\* React runs the effects the last render scheduled, in declaration order:
\* fetchProfile() up to its await, then the effect on pfpUrl.
FlushEffects ==
    /\ effects # {}
    /\ requests' = IF "fetchProfile" \in effects
                   THEN requests \cup
                        {FetchRequest(navCount, address, profileData, ensAvatar.data)}
                   ELSE requests
    /\ pfpUrl' = IF "pfpUrl" \in effects
                 THEN PfpEffect(pfpUrl, ensAvatar.data)
                 ELSE pfpUrl
    /\ effects' = IF pfpUrl' # pfpUrl THEN {"pfpUrl"} ELSE {}
    /\ UNCHANGED <<address, navCount, profileData, ensAvatarQ, avatarRegistry,
                   followReqs, lastRes, staleApplied,
                   ensVars, formVars, homeVars, cookieVars>>

\* the router shows /{b}/profile: same component instance, new location key
Navigate(b) ==
    /\ effects = {}
    /\ navCount < MaxNav
    /\ address' = b
    /\ navCount' = navCount + 1
    /\ ensAvatarQ' = [ensAvatarQ EXCEPT ![b] =
                        IF @.status \in {"success", "loading"} THEN @ ELSE QueryLoading]
    /\ effects' = {"fetchProfile"}
    /\ UNCHANGED <<profileData, pfpUrl, avatarRegistry, requests, followReqs,
                   lastRes, staleApplied, ensVars, formVars, homeVars, cookieVars>>

\* the naming registry answers the avatar lookup of address a, or fails
EnsAvatarSettle(a, ok) ==
    /\ effects = {}
    /\ ensAvatarQ[a].status = "loading"
    /\ ensAvatarQ' = [ensAvatarQ EXCEPT ![a] =
                        IF ok THEN [status |-> "success", data |-> RegistryAvatar(a)]
                        ELSE [status |-> "error", data |-> Undefined]]
    /\ UNCHANGED <<address, navCount, profileData, pfpUrl, avatarRegistry, effects,
                   requests, followReqs, lastRes, staleApplied,
                   ensVars, formVars, homeVars, cookieVars>>

\* fetchProfile resumes after its await with the response of request r
FetchProfileSettle(r, status, data) ==
    /\ effects = {}
    /\ r \in requests
    /\ requests' = requests \ {r}
    /\ lastRes' = [id |-> r.id, addr |-> r.addr, status |-> status]
    /\ staleApplied' = (staleApplied \/ (status = 200 /\ r.addr # address))
    /\ IF status = 200
       THEN /\ profileData' = data
            /\ pfpUrl' = determineProfilePic(r.pd, r.ens)
            /\ effects' = IF pfpUrl' # pfpUrl THEN {"pfpUrl"} ELSE {}
       ELSE UNCHANGED <<profileData, pfpUrl, effects>>
    /\ UNCHANGED <<address, navCount, ensAvatarQ, avatarRegistry, followReqs,
                   ensVars, formVars, homeVars, cookieVars>>

handleFollow ==
    /\ effects = {}
    /\ followReqs[address] < MaxFollow
    /\ followReqs' = [followReqs EXCEPT ![address] = @ + 1]
    /\ UNCHANGED <<address, navCount, profileData, pfpUrl, ensAvatarQ, avatarRegistry,
                   effects, requests, lastRes, staleApplied,
                   ensVars, formVars, homeVars, cookieVars>>

FollowSettle(a) ==
    /\ effects = {}
    /\ followReqs[a] > 0
    /\ followReqs' = [followReqs EXCEPT ![a] = @ - 1]
    /\ UNCHANGED <<address, navCount, profileData, pfpUrl, ensAvatarQ, avatarRegistry,
                   effects, requests, lastRes, staleApplied,
                   ensVars, formVars, homeVars, cookieVars>>

Next ==
    \/ FlushEffects
    \/ \E b \in Addrs : Navigate(b)
    \/ \E a \in Addrs, ok \in BOOLEAN : EnsAvatarSettle(a, ok)
    \/ \E r \in requests, status \in Statuses :
          \E data \in ProfilePayloads(r.addr) : FetchProfileSettle(r, status, data)
    \/ handleFollow
    \/ \E a \in Addrs : FollowSettle(a)

Spec == Init /\ [][Next]_vars

\* ============================================================ EnsAndAddress
\* Strings this component shows are sequences of characters.
HexDigits == <<"0", "1", "2", "3", "4", "5", "6", "7",
               "8", "9", "a", "b", "c", "d", "e", "f">>

\* the 42-character form of address a: "0x" and 40 hexadecimal digits
AddressOf(a) ==
    <<"0", "x">> \o [j \in 1..40 |-> HexDigits[((a * j + j \div 7) % 16) + 1]]

\* the name the registry holds for address a
EnsName(a) == <<"u", "s", "e", "r", HexDigits[(a % 16) + 1], ".", "e", "t", "h">>

\* String.prototype.substr(start, length), start counted from 0
Substr(str, start, length) ==
    SubSeq(str, start + 1, IF start + length < Len(str) THEN start + length ELSE Len(str))

\* getAbbrAddress(address), in a render whose props.address is propsAddress
getAbbrAddress(addr, propsAddress) ==
    Substr(addr, 2, 5) \o <<".", ".", ".">> \o Substr(propsAddress, 37, 5)

\* the keys of props; `! "address" in props` is `(!"address") in props`,
\* that is `"false" in props`
PropsKeys == {"address", "className", "onClick"}
MissingAddressTest == "false" \in PropsKeys

\* the hook's return value in the current render
ensName == ensNameQ[eaAddress]
isLoading == ensName.status = "loading"
isError == ensName.status = "error"

\* what the registry lookup returns for a on success
RegistryName(a) == IF nameRegistry[a] THEN EnsName(a) ELSE <<"null">>

\* the same element with the name test written against undefined
EnsAndAddressUndefinedTest ==
    IF MissingAddressTest
    THEN [kind |-> "missing", label |-> <<>>, inner |-> <<>>]
    ELSE IF isLoading
    THEN [kind |-> "fetching", label |-> <<>>, inner |-> <<>>]
    ELSE IF isError
    THEN [kind |-> "error", label |-> <<>>, inner |-> <<>>]
    ELSE IF ensName.data # <<"undefined">>
    THEN [kind |-> "name", label |-> ensName.data,
          inner |-> getAbbrAddress(AddressOf(eaAddress), AddressOf(eaAddress))]
    ELSE [kind |-> "address",
          label |-> getAbbrAddress(AddressOf(eaAddress), AddressOf(eaAddress)),
          inner |-> <<>>]

\* the element EnsAndAddress returns: which branch, the text of the span
\* and the text of the inner span
EnsAndAddress ==
    IF MissingAddressTest
    THEN [kind |-> "missing", label |-> <<>>, inner |-> <<>>]
    ELSE IF isLoading
    THEN [kind |-> "fetching", label |-> <<>>, inner |-> <<>>]
    ELSE IF isError
    THEN [kind |-> "error", label |-> <<>>, inner |-> <<>>]
    ELSE IF ensName.data # <<"null">>
    THEN [kind |-> "name", label |-> ensName.data,
          inner |-> getAbbrAddress(AddressOf(eaAddress), AddressOf(eaAddress))]
    ELSE [kind |-> "address",
          label |-> getAbbrAddress(AddressOf(eaAddress), AddressOf(eaAddress)),
          inner |-> <<>>]

NameIdle == [status |-> "idle", data |-> <<"undefined">>]
NameLoading == [status |-> "loading", data |-> <<"undefined">>]

EnsInit ==
    /\ eaAddress \in Addrs
    /\ nameRegistry \in [Addrs -> BOOLEAN]
    /\ ensNameQ = [a \in Addrs |-> IF a = eaAddress THEN NameLoading ELSE NameIdle]
    /\ ProfileUnmounted
    /\ FormUnmounted
    /\ HomeUnmounted
    /\ CookieUnused

\* the parent renders the component with another address, or mounts it
EnsSetAddress(b) ==
    /\ b # eaAddress
    /\ eaAddress' = b
    /\ ensNameQ' = [ensNameQ EXCEPT ![b] =
                      IF @.status \in {"success", "loading"} THEN @ ELSE NameLoading]
    /\ UNCHANGED <<nameRegistry, profileVars, formVars, homeVars, cookieVars>>

\* the naming registry answers the name lookup of address a, or fails
EnsNameSettle(a, ok) ==
    /\ ensNameQ[a].status = "loading"
    /\ ensNameQ' = [ensNameQ EXCEPT ![a] =
                      IF ok THEN [status |-> "success", data |-> RegistryName(a)]
                      ELSE [status |-> "error", data |-> <<"undefined">>]]
    /\ UNCHANGED <<eaAddress, nameRegistry, profileVars, formVars, homeVars, cookieVars>>

\* the route changes and the component unmounts; the query cache stays
EnsUnmount ==
    /\ eaAddress # 0
    /\ eaAddress' = 0
    /\ UNCHANGED <<ensNameQ, nameRegistry, profileVars, formVars, homeVars, cookieVars>>

EnsNext ==
    \/ \E b \in Addrs : EnsSetAddress(b)
    \/ EnsUnmount
    \/ \E a \in Addrs, ok \in BOOLEAN : EnsNameSettle(a, ok)

SpecEns == EnsInit /\ [][EnsNext]_vars

\* ======================================================== CreateProfileForm
MaxSaves == 2

\* props.initialState
initialState == [bio |-> "", website |-> ""]

FieldNames == {"bio", "website"}
FieldValues == {"", "gm"}

\* a connection check that takes any known address for a connected one
isConnectedByAddress == account.address # 0

\* const { isConnected, address } = useAccount()
isConnected == account.status = "connected"
accountAddress == account.address

\* `formRes.status === 200 || 201`: the number 201 when the status is not 200
Truthy(n) == n # 0
StatusTest(status) == (status = 200) \/ Truthy(201)

SaveStatuses == {200, 201, 400, 403, 500}

SaveRequest(id, addr, body) == [id |-> id, addr |-> addr, body |-> body]

FormInit ==
    /\ account \in {[status |-> "disconnected", address |-> 0]}
                   \cup {[status |-> "reconnecting", address |-> a] : a \in Addrs}
    /\ profile = initialState
    /\ saveReqs = {}
    /\ saveCount = 0
    /\ formLog = ""
    /\ lastSave = 0
    /\ ProfileUnmounted
    /\ EnsUnmounted
    /\ HomeUnmounted
    /\ CookieUnused

\* the wallet connects with address a, or switches to it
Connect(a) ==
    /\ account # [status |-> "connected", address |-> a]
    /\ account' = [status |-> "connected", address |-> a]
    /\ UNCHANGED <<profile, saveReqs, saveCount, formLog, lastSave, profileVars, ensVars, homeVars, cookieVars>>

Disconnect ==
    /\ account.status # "disconnected"
    /\ account' = [status |-> "disconnected", address |-> 0]
    /\ UNCHANGED <<profile, saveReqs, saveCount, formLog, lastSave, profileVars, ensVars, homeVars, cookieVars>>

handleChange(name, value) ==
    /\ profile[name] # value
    /\ profile' = [profile EXCEPT ![name] = value]
    /\ UNCHANGED <<account, saveReqs, saveCount, formLog, lastSave, profileVars, ensVars, homeVars, cookieVars>>

\* <Button disabled={!isConnected} ...>
SubmitDisabled == ~isConnected

\* a click on Submit: handleSubmit up to its await
handleSubmit ==
    /\ ~SubmitDisabled
    /\ saveCount < MaxSaves
    /\ IF ~isConnected
       THEN UNCHANGED <<saveReqs, saveCount>>
       ELSE /\ saveReqs' = saveReqs \cup {SaveRequest(saveCount, accountAddress, profile)}
            /\ saveCount' = saveCount + 1
    /\ UNCHANGED <<account, profile, formLog, lastSave, profileVars, ensVars, homeVars, cookieVars>>

\* handleSubmit resumes after its await with the response of request r
SaveSettle(r, status) ==
    /\ r \in saveReqs
    /\ saveReqs' = saveReqs \ {r}
    /\ lastSave' = status
    /\ IF StatusTest(status)
       THEN /\ formLog' = "successfully posted data"
            /\ profile' = initialState
       ELSE /\ formLog' = "error posting data"
            /\ UNCHANGED profile
    /\ UNCHANGED <<account, saveCount, profileVars, ensVars, homeVars, cookieVars>>

FormNext ==
    \/ \E a \in Addrs : Connect(a)
    \/ Disconnect
    \/ \E name \in FieldNames, value \in FieldValues : handleChange(name, value)
    \/ handleSubmit
    \/ \E r \in saveReqs, status \in SaveStatuses : SaveSettle(r, status)

SpecForm == FormInit /\ [][FormNext]_vars

\* ===================================================================== Home
MaxRev == 3

\* the user objects useUser() may return: the record of an address, in one
\* of the revisions the backend has served for it
Users == {[address |-> a, rev |-> r] : a \in Addrs, r \in 0..MaxRev}

HomeInit ==
    /\ homeMounted = TRUE
    /\ user \in Users \cup {NoUser}
    /\ homeProfileData = NoUser
    /\ loading = TRUE
    /\ homeEffects = {"user", "profileData"}
    /\ ProfileUnmounted
    /\ EnsUnmounted
    /\ FormUnmounted
    /\ CookieUnused

\* React runs the effects the last render scheduled, in declaration order:
\* setProfileData(user), then setLoading(false); the two updates make one
\* render, which schedules the effect on [profileData] if that changed.
HomeFlushEffects ==
    /\ homeEffects # {}
    /\ homeProfileData' = IF "user" \in homeEffects THEN user ELSE homeProfileData
    /\ loading' = IF "profileData" \in homeEffects THEN FALSE ELSE loading
    /\ homeEffects' = IF homeProfileData' # homeProfileData THEN {"profileData"} ELSE {}
    /\ UNCHANGED <<homeMounted, user, profileVars, ensVars, formVars, cookieVars>>

\* useUser() returns another value: sign-in, sign-out, another user, or a
\* newer record of the same user
UserChange(u) ==
    /\ homeEffects = {}
    /\ u # user
    /\ user' = u
    /\ homeEffects' = IF homeMounted THEN {"user"} ELSE {}
    /\ UNCHANGED <<homeMounted, homeProfileData, loading, profileVars, ensVars, formVars, cookieVars>>

\* the route leaves Home: its state is dropped, the signed-in user stays
HomeUnmount ==
    /\ homeMounted
    /\ homeEffects = {}
    /\ homeMounted' = FALSE
    /\ homeProfileData' = NoUser
    /\ loading' = TRUE
    /\ UNCHANGED <<user, homeEffects, profileVars, ensVars, formVars, cookieVars>>

\* the route shows Home again: first render, both effects scheduled
HomeMount ==
    /\ ~homeMounted
    /\ homeMounted' = TRUE
    /\ homeEffects' = {"user", "profileData"}
    /\ UNCHANGED <<user, homeProfileData, loading, profileVars, ensVars, formVars, cookieVars>>

\* WalletFeed, while rendered, calls the setProfileData it was handed (its
\* code is not among the sources): taken to store a newer record of the
\* address whose record it holds
WalletFeedSetProfileData(d) ==
    /\ homeEffects = {}
    /\ homeMounted
    /\ user # NoUser /\ homeProfileData # NoUser /\ loading = FALSE
    /\ d.address = homeProfileData.address
    /\ d # homeProfileData
    /\ homeProfileData' = d
    /\ homeEffects' = {"profileData"}
    /\ UNCHANGED <<homeMounted, user, loading, profileVars, ensVars, formVars, cookieVars>>

\* what Home returns: the sign-in heading, and WalletFeed with its props or
\* the loading heading
HomeRender ==
    [pleaseSignIn |-> homeMounted /\ user = NoUser,
     walletFeed |-> /\ homeMounted
                    /\ user # NoUser /\ homeProfileData # NoUser /\ loading = FALSE,
     profileData |-> homeProfileData,
     author |-> user.address]

HomeNext ==
    \/ HomeFlushEffects
    \/ \E u \in Users \cup {NoUser} : UserChange(u)
    \/ \E d \in Users : WalletFeedSetProfileData(d)
    \/ HomeUnmount
    \/ HomeMount

SpecHome == HomeInit /\ [][HomeNext]_vars

\* ================================================================ getCookie
\* Strings are sequences of characters; null and a thrown URIError are the
\* one-element sequences below, which no string of characters equals.
MaxCookies == 2
MaxValLen == 3

JsNull == <<"#null">>
URIError == <<"#URIError">>

\* the names and the characters of the values of the page's cookies
CookieNames == {<<"k">>, <<"k", "k">>}
ValueChars == {"=", "%", "3", "D"}

SeqsUpTo(S, n) == UNION {[1..m -> S] : m \in 0..n}

CookieValues == SeqsUpTo(ValueChars, MaxValLen)

Cookies == {[name |-> n, value |-> v] : n \in CookieNames, v \in CookieValues}

\* document.cookie: "name=value" of each cookie, joined by "; "
RECURSIVE documentCookie(_)
documentCookie(jar) ==
    IF jar = <<>> THEN <<>>
    ELSE Head(jar).name \o <<"=">> \o Head(jar).value
         \o (IF Tail(jar) = <<>> THEN <<>> ELSE <<";", " ">> \o documentCookie(Tail(jar)))

\* the index of the first sep in str from position i on, or 0
RECURSIVE IndexFrom(_, _, _)
IndexFrom(str, sep, i) ==
    IF i > Len(str) THEN 0
    ELSE IF str[i] = sep THEN i
    ELSE IndexFrom(str, sep, i + 1)

\* String.prototype.split(sep), sep one character
RECURSIVE Split(_, _)
Split(str, sep) ==
    LET i == IndexFrom(str, sep, 1)
    IN  IF i = 0 THEN <<str>>
        ELSE <<SubSeq(str, 1, i - 1)>> \o Split(SubSeq(str, i + 1, Len(str)), sep)

\* String.prototype.trim()
RECURSIVE Trim(_)
Trim(str) ==
    IF str = <<>> THEN str
    ELSE IF Head(str) = " " THEN Trim(Tail(str))
    ELSE IF str[Len(str)] = " " THEN Trim(SubSeq(str, 1, Len(str) - 1))
    ELSE str

\* String.prototype.startsWith(prefix)
StartsWith(str, prefix) ==
    Len(prefix) <= Len(str) /\ SubSeq(str, 1, Len(prefix)) = prefix

IsHex(c) == c \in {"3", "D"}
HexVal(c) == IF c = "3" THEN 3 ELSE 13

\* decodeURIComponent: "%3D" is "=", "%33" is "3"; "%D3" and "%DD" open a
\* two-byte sequence whose second byte (%80..%BF) these characters cannot
\* spell, and a "%" without two hexadecimal digits is malformed: URIError
RECURSIVE decodeURIComponent(_)
decodeURIComponent(str) ==
    IF str = <<>> THEN <<>>
    ELSE IF Head(str) # "%"
    THEN LET rest == decodeURIComponent(Tail(str))
         IN  IF rest = URIError THEN URIError ELSE <<Head(str)>> \o rest
    ELSE IF Len(str) < 3 \/ ~IsHex(str[2]) \/ ~IsHex(str[3]) THEN URIError
    ELSE LET byte == 16 * HexVal(str[2]) + HexVal(str[3])
             rest == decodeURIComponent(SubSeq(str, 4, Len(str)))
         IN  IF byte >= 128 \/ rest = URIError THEN URIError
             ELSE <<(IF byte = 61 THEN "=" ELSE "3")>> \o rest

\* getCookie(name), document.cookie being cookie
getCookie(name, cookie) ==
    IF cookie = <<>> THEN JsNull
    ELSE LET trimmed == [i \in DOMAIN Split(cookie, ";") |-> Trim(Split(cookie, ";")[i])]
             xsrfCookies == SelectSeq(trimmed, LAMBDA c : StartsWith(c, name \o <<"=">>))
         IN  IF Len(xsrfCookies) = 0 THEN JsNull
             ELSE decodeURIComponent(Split(xsrfCookies[1], "=")[2])

CookieInit ==
    /\ cookieJar \in SeqsUpTo(Cookies, MaxCookies)
    /\ cookieArg \in CookieNames
    /\ cookiePc = "call"
    /\ cookieResult = <<>>
    /\ ProfileUnmounted
    /\ EnsUnmounted
    /\ FormUnmounted
    /\ HomeUnmounted

CallGetCookie ==
    /\ cookiePc = "call"
    /\ cookieResult' = getCookie(cookieArg, documentCookie(cookieJar))
    /\ cookiePc' = "done"
    /\ UNCHANGED <<cookieJar, cookieArg, profileVars, ensVars, formVars, homeVars>>

CookieNext == CallGetCookie

SpecCookie == CookieInit /\ [][CookieNext]_vars

\* ---------------------------------------------------- what Profile renders
\* the avatar element: Blockies seeded by the address exactly when pfpUrl is null
AvatarShown ==
    IF pfpUrl = Null
    THEN [kind |-> "Blockies", seed |-> address, src |-> Undefined]
    ELSE [kind |-> "Image", seed |-> 0, src |-> pfpUrl]

\* the posts section: one Post element per entry of profileData["posts"]
PostsShown ==
    IF "posts" \in profileData.keys THEN profileData.posts ELSE <<>>

\* ------------------------------------------------------- Profile: claims
IsUrl(v) == v.t = "string" /\ v # EmptyStr

\* the response of the request issued for the current navigation has arrived
\* last, nothing is in flight, and the avatar lookup of the address settled
BothSettled ==
    /\ effects = {}
    /\ requests = {}
    /\ lastRes.id = navCount
    /\ ensAvatar.status \in {"success", "error"}

\* custom > naming > generated, from the two settled sources
ExpectedAvatar ==
    IF lastRes.status = 200 /\ "image" \in profileData.keys /\ IsUrl(profileData.image)
    THEN [kind |-> "Image", seed |-> 0, src |-> profileData.image]
    ELSE IF IsUrl(ensAvatar.data)
    THEN [kind |-> "Image", seed |-> 0, src |-> ensAvatar.data]
    ELSE [kind |-> "Blockies", seed |-> address, src |-> Undefined]

\* C1: once the profile fetch and the avatar lookup of the displayed address
\* have both settled, the avatar shown is the profile's custom image if it is
\* a non-empty string, else the naming avatar if one exists, else the
\* identicon generated from the address.
C1_AvatarPrecedence == BothSettled => AvatarShown = ExpectedAvatar

\* C2: while the avatar lookup of an address whose registry entry has an
\* avatar is still pending, the generated identicon is not displayed.
C2_NoFlicker ==
    (avatarRegistry[address] /\ ensAvatar.status = "loading")
        => AvatarShown.kind # "Blockies"

\* C3: a response to a request issued for an address that is no longer the
\* observed one changes neither the profile data nor the avatar displayed.
C3_StaleResponseSuppressed ==
    [][\A r \in requests :
          (r \notin requests' /\ r.addr # address)
              => (profileData' = profileData /\ pfpUrl' = pfpUrl)]_vars

\* C7: at most one follow request per followee is in flight at any time.
C7_OneFollowInFlight == \A a \in Addrs : followReqs[a] <= 1

NewerThan(p, q) ==
    \/ p.created > q.created
    \/ p.created = q.created /\ p.id > q.id

\* C9: the posts rendered are strictly newest-first by created, ties broken
\* by id descending; so no post id is rendered twice.
C9_PostsNewestFirstOnce ==
    \A i, j \in 1..Len(PostsShown) :
        i < j => NewerThan(PostsShown[i], PostsShown[j])

\* C10: in a quiescent state in which the fetch for the observed address has
\* completed with a status other than 200, the profile data displayed is
\* empty or was fetched for the observed address.
C10_NoDataOfPreviousAddress ==
    (effects = {} /\ requests = {} /\ ~staleApplied
        /\ lastRes.id = navCount /\ lastRes.status # 200)
        => (profileData = EmptyProfile \/ profileData.address = address)

\* ------------------------------------------------- EnsAndAddress: claims
\* the abbreviated form of a 42-character address: the five characters after
\* "0x", an ellipsis, the last five characters
Abbreviated(str) ==
    SubSeq(str, 3, 7) \o <<".", ".", ".">> \o SubSeq(str, Len(str) - 4, Len(str))

\* C4: once the name lookup of the address has settled without error, the
\* label is the registered name when one exists, and it is the abbreviated
\* form of that address exactly when no name is registered.
C4_LabelPrecedence ==
    (eaAddress # 0 /\ ensName.status = "success") =>
        /\ nameRegistry[eaAddress] => EnsAndAddress.label = EnsName(eaAddress)
        /\ (EnsAndAddress.label = Abbreviated(AddressOf(eaAddress)))
               <=> ~nameRegistry[eaAddress]

\* a named address is shown after an unnamed one was looked up
C4_Witness ==
    /\ eaAddress # 0
    /\ ensName.status = "success"
    /\ nameRegistry[eaAddress]
    /\ EnsAndAddress.kind = "name"
    /\ \E b \in Addrs : /\ b # eaAddress
                        /\ ensNameQ[b].status = "success"
                        /\ ~nameRegistry[b]

\* C5: when the name lookup of the address fails, the component shows what
\* it shows for an unregistered address: the abbreviated address.
C5_FailureShownAsUnregistered ==
    (eaAddress # 0 /\ ensName.status = "error") =>
        EnsAndAddress = [kind |-> "address",
                         label |-> Abbreviated(AddressOf(eaAddress)),
                         inner |-> <<>>]

\* --------------------------------------------- CreateProfileForm: claims
\* C6: when a save is answered with a status other than 200 and 201, the
\* form state is left as entered (the part of the claim about local state;
\* the console line of the same step is formLog).
C6_FailedSaveLeavesState ==
    [][((\E r \in saveReqs : r \notin saveReqs') /\ lastSave' \notin {200, 201})
          => profile' = profile]_vars

\* C8: every save request issued goes to the profile endpoint of the address
\* connected when it is issued, and none is issued while no address is
\* connected.
C8_SaveOnlyOwnAddress ==
    [][\A r \in saveReqs' \ saveReqs :
          /\ account.status = "connected"
          /\ r.addr = account.address]_vars

\* a save is in flight for one address after the wallet switched to another
C8_Witness ==
    /\ account.status = "connected"
    /\ \E r \in saveReqs : r.addr # account.address
    /\ \E r \in saveReqs : r.addr = account.address

\* ------------------------------------------------------------ Home: claims
\* C11: in every render of Home, WalletFeed is rendered only when user is
\* not null, and the profileData it gets belongs to the address of the user
\* it gets as author.
C11_WalletFeedDataOfUser ==
    HomeRender.walletFeed =>
        /\ user # NoUser
        /\ HomeRender.profileData.address = HomeRender.author

\* -------------------------------------------------------- getCookie: claims
\* the whole value of the first cookie of the jar named name, URI-decoded;
\* null when there is none
RECURSIVE ValueOfFirst(_, _)
ValueOfFirst(jar, name) ==
    IF jar = <<>> THEN JsNull
    ELSE IF Head(jar).name = name THEN decodeURIComponent(Head(jar).value)
    ELSE ValueOfFirst(Tail(jar), name)

\* C12: getCookie(name) returns the complete URI-decoded value of the first
\* cookie whose name is exactly name, also when the value contains "=", and
\* null when there is no cookie or none with that name.
C12_CookieValue ==
    cookiePc = "done" => cookieResult = ValueOfFirst(cookieJar, cookieArg)

====
